---- MODULE Spec2Model ----
(***************************************************************************)
(* Model of the calendar tools under src/tools:                            *)
(*   - fullnote-to-dailynote-converter.py : frontmatter parser and the     *)
(*     date-keyed Daily Aggregate with its flush (specification Spec);     *)
(*   - the parser's round trip through 'key: value' lines (ParseSpec);     *)
(*   - generate_full_note_calendar.py : the filename codec (CodecSpec)     *)
(*     and the random event generators feeding it (GenSpec);               *)
(*   - auto_sync_obsidian.py : the device-sync watcher (WatchSpec);        *)
(*   - generate_daily_note_calendar.py : gen_events_for_day and            *)
(*     write_day_file (DaySpec).                                           *)
(* Text is a sequence of one-character strings, so that the parser's       *)
(* splitting, trimming and delimiter search are computed, not assumed.     *)
(* Formatted lines and file names are TLA+ strings built with \o.          *)
(***************************************************************************)
EXTENDS Integers, Sequences, FiniteSets, TLC

(***************************************************************************)
(* Bounds of the model.                                                    *)
(***************************************************************************)
\* number of markdown files found by one directory walk
MaxNotes == 2
\* number of times main() is called in one process
MaxRuns == 2
\* number of lines in a generated frontmatter block (ParseSpec)
MaxLines == 2
\* number of weekday codes of a weekly event (CodecSpec)
MaxDays == 3
\* file-modification notifications followed in one run of the watcher
MaxEvents == 3

(***************************************************************************)
(* Character-level helpers (Python str methods used by the converter).     *)
(***************************************************************************)
\* the characters str.strip() and the regex class \s treat as whitespace
WS == {" ", "\t", "\n", "\r", "\f"}

\* the characters str.splitlines() treats as line boundaries
LineBreaks == {"\n", "\r", "\f"}

RECURSIVE Str(_)
\* the string spelled by a sequence of characters
Str(s) == IF s = <<>> THEN "" ELSE Head(s) \o Str(Tail(s))

RECURSIVE LStrip(_)
LStrip(s) == IF s # <<>> /\ Head(s) \in WS THEN LStrip(Tail(s)) ELSE s

RECURSIVE RStrip(_)
RStrip(s) ==
    IF s # <<>> /\ s[Len(s)] \in WS THEN RStrip(SubSeq(s, 1, Len(s) - 1)) ELSE s

\* str.strip()
Strip(s) == RStrip(LStrip(s))

\* whether p occurs in s at index i
At(s, i, p) == i >= 1 /\ i + Len(p) - 1 <= Len(s) /\ SubSeq(s, i, i + Len(p) - 1) = p

\* str.startswith
StartsWith(s, p) == At(s, 1, p)

\* the least index >= from at which p occurs in s, 0 when there is none
Find(s, p, from) ==
    LET hits == {q \in from..Len(s) : At(s, q, p)}
    IN IF hits = {} THEN 0 ELSE CHOOSE q \in hits : \A r \in hits : q <= r

\* the number of consecutive whitespace characters of s starting at index i
WsRun(s, i) ==
    LET stops == {j \in i..(Len(s) + 1) : j = Len(s) + 1 \/ s[j] \notin WS}
    IN (CHOOSE j \in stops : \A k \in stops : j <= k) - i

\* str.splitlines(): the lines of s; "\r\n" is one boundary, no empty last line
RECURSIVE SplitLines(_)
SplitLines(s) ==
    IF s = <<>> THEN <<>>
    ELSE LET brk == {j \in 1..Len(s) : s[j] \in LineBreaks}
         IN IF brk = {} THEN <<s>>
            ELSE LET j == CHOOSE x \in brk : \A y \in brk : x <= y
                     k == IF s[j] = "\r" /\ j < Len(s) /\ s[j + 1] = "\n"
                          THEN j + 1 ELSE j
                 IN <<SubSeq(s, 1, j - 1)>> \o SplitLines(SubSeq(s, k + 1, Len(s)))

(***************************************************************************)
(* extract_frontmatter                                                     *)
(***************************************************************************)
Dashes == <<"-", "-", "-">>

NLDashes == <<"\n", "-", "-", "-">>

\* dict assignment frontmatter[key] = value: a present key keeps its position
DictSet(fm, key, value) ==
    IF \E i \in 1..Len(fm) : fm[i].k = key
    THEN [i \in 1..Len(fm) |-> IF fm[i].k = key THEN [k |-> key, v |-> value] ELSE fm[i]]
    ELSE Append(fm, [k |-> key, v |-> value])

\* line.split(":", 1) with both parts stripped
SplitKeyValue(line) ==
    LET c == Find(line, <<":">>, 1)
    IN [k |-> Strip(SubSeq(line, 1, c - 1)), v |-> Strip(SubSeq(line, c + 1, Len(line)))]

RECURSIVE ParseLines(_, _)
\* the loop over frontmatter_text.splitlines()
ParseLines(lines, fm) ==
    IF lines = <<>> THEN fm
    ELSE LET line == Head(lines)
         IN IF Find(line, <<":">>, 1) # 0
            THEN ParseLines(Tail(lines),
                            DictSet(fm, SplitKeyValue(line).k, SplitKeyValue(line).v))
            ELSE ParseLines(Tail(lines), fm)

\* re.match(r"^---\s*\n(.*?)\n---\s*", text, re.DOTALL): the greedy \s* gives back
\* characters until a "\n" follows it and a "\n---" is found after that; the lazy
\* group stops at the first "\n---"; the trailing \s* takes all whitespace
FrontmatterMatch(text) ==
    LET opens == {n \in 4..(3 + WsRun(text, 4)) :
                     text[n] = "\n" /\ Find(text, NLDashes, n + 1) # 0}
    IN IF ~StartsWith(text, Dashes) \/ opens = {}
       THEN [ok |-> FALSE, group |-> <<>>, end |-> 1]
       ELSE LET n == CHOOSE x \in opens : \A y \in opens : y <= x
                q == Find(text, NLDashes, n + 1)
            IN [ok |-> TRUE, group |-> SubSeq(text, n + 1, q - 1),
                end |-> q + 4 + WsRun(text, q + 4)]

\* the pair (frontmatter, body)
extract_frontmatter(text) ==
    LET m == FrontmatterMatch(text)
    IN IF ~m.ok THEN [frontmatter |-> <<>>, body |-> text]
       ELSE [frontmatter |-> ParseLines(SplitLines(m.group), <<>>),
             body |-> Strip(SubSeq(text, m.end, Len(text)))]

\* frontmatter.get(name, default), as strings
Get(fm, name, default) ==
    IF \E i \in 1..Len(fm) : Str(fm[i].k) = name
    THEN Str(fm[CHOOSE i \in 1..Len(fm) : Str(fm[i].k) = name].v)
    ELSE default

(***************************************************************************)
(* The notes a directory walk can find.  A note is a file: readable with   *)
(* a text, or one whose open()/read() raises (missing permission, bytes    *)
(* that are not UTF-8).                                                    *)
(***************************************************************************)
\* the example note of the converter's documentation: all fields, completed
NoteCall ==
    <<"-","-","-"," ","\n","d","a","t","e",":"," ","2","0","2","5","-","0","7","-","2","1",
      "\n","t","i","t","l","e",":"," ","C","a","l","l","\n","s","t","a","r","t","T","i","m",
      "e",":"," ","0","9",":","0","0","\n","e","n","d","T","i","m","e",":"," ","1","0",":",
      "0","0","\n","t","i","m","e","z","o","n","e",":"," ","E","u","r","o","p","e","/","B",
      "u","d","a","p","e","s","t","\n","c","o","m","p","l","e","t","e","d",":"," ","t","r",
      "u","e","\n","-","-","-","\n","F","o","l","l","o","w","e","d"," ","u","p",".">>

\* same date, an endDate, no title, no completed key
NoteTrip ==
    <<"-","-","-","\n","d","a","t","e",":"," ","2","0","2","5","-","0","7","-","2","1","\n",
      "e","n","d","D","a","t","e",":"," ","2","0","2","5","-","0","7","-","2","3","\n","s",
      "t","a","r","t","T","i","m","e",":"," ","0","8",":","0","0","\n","-","-","-","\n","P",
      "a","c","k","e","d",".","\n">>

\* another date, 'completed: false', a body of whitespace only
NoteDone ==
    <<"-","-","-","\n","d","a","t","e"," ",":"," ","2","0","2","5","-","0","7","-","2","2",
      "\n","t","i","t","l","e",":"," ","G","y","m","\n","c","o","m","p","l","e","t","e","d",
      ":"," ","f","a","l","s","e","\n","-","-","-","\n"," ","\n">>

\* title, completed and endDate present with empty values
NoteOpen ==
    <<"-","-","-","\n","d","a","t","e",":"," ","2","0","2","5","-","0","7","-","2","2","\n",
      "t","i","t","l","e",":","\n","c","o","m","p","l","e","t","e","d",":","\n","e","n","d",
      "D","a","t","e",":","\n","-","-","-","\n","R","e","s","t">>

\* no frontmatter: the text does not start with '---'
NotePlain ==
    <<"#"," ","I","d","e","a","s","\n","d","a","t","e",":"," ","2","0","2","5","-","0","7",
      "-","2","1","\n">>

\* an opening '---' that is never closed
NoteNoClose ==
    <<"-","-","-","\n","d","a","t","e",":"," ","2","0","2","5","-","0","7","-","2","1","\n",
      "t","i","t","l","e",":"," ","D","r","a","f","t","\n">>

\* a frontmatter without a date key
NoteNoDate ==
    <<"-","-","-","\n","t","i","t","l","e",":"," ","M","e","m","o","\n","-","-","-","\n",
      "N","o"," ","d","a","y",".">>

\* a date key with an empty value
NoteEmptyDate ==
    <<"-","-","-","\n","t","i","t","l","e",":"," ","M","e","m","o","\n","d","a","t","e",":",
      "\n","-","-","-","\n","N","o"," ","d","a","y",".">>

\* text after the opening '---' on the same line: the delimiter pair is malformed
NoteGlued ==
    <<"-","-","-","d","a","t","e",":"," ","2","0","2","5","-","0","7","-","2","2","\n","-",
      "-","-","\n","x">>

Readable(text) == [readable |-> TRUE, text |-> text]

\* a file whose open() or read() raises
Unreadable == [readable |-> FALSE, text |-> <<>>]

NotePool ==
    {Readable(NoteCall), Readable(NoteTrip), Readable(NoteDone), Readable(NoteOpen),
     Readable(NotePlain), Readable(NoteNoClose), Readable(NoteNoDate),
     Readable(NoteEmptyDate), Readable(NoteGlued), Unreadable}

\* the directories of at most MaxNotes files, in walk order
Directories == UNION {[1..n -> NotePool] : n \in 0..MaxNotes}

(***************************************************************************)
(* State.                                                                  *)
(***************************************************************************)
VARIABLES
    \* converter (fullnote-to-dailynote-converter.py)
    dir,             \* the markdown files os.walk yields, in walk order
    pc,              \* position of main(): idle, walk, flush, done, or aborted
    todo,            \* files of the walk not yet handed to process_markdown_file
    events_by_date,  \* the module-level Daily Aggregate, in dict insertion order
    flushq,          \* date keys write_aggregated_files has not reached yet
    exported,        \* files under exported/: file name -> the chunks written
    runs,            \* calls of main() so far in this process
    flushes,         \* calls of write_aggregated_files in the current run
    last,            \* locals of the latest process_markdown_file call
    \* parser round trip
    rt,
    \* filename codec (generate_full_note_calendar.py)
    ev,              \* the event handed to write_single / write_recurring
    out_dir,         \* the file names written to the output directory
    \* device-sync watcher (auto_sync_obsidian.py)
    watch,
    \* daily note generator (generate_daily_note_calendar.py)
    day

convVars == <<dir, pc, todo, events_by_date, flushq, exported, runs, flushes, last>>

vars ==
    <<dir, pc, todo, events_by_date, flushq, exported, runs, flushes, last, rt, ev, out_dir,
      watch, day>>

(***************************************************************************)
(* process_markdown_file                                                   *)
(***************************************************************************)
\* bool(s) of a Python str
Truthy(s) == s # ""

\* faulty variant: interprets the value as a boolean, so 'false' gives "[ ]"
CheckboxParsesBool(completed) ==
    IF completed # ""
    THEN (IF completed \in {"false", "False", "0", "no"} THEN "[ ]" ELSE "[x]")
    ELSE ""

\* the checkbox token (lines 100-103)
Checkbox(completed) ==
    IF completed # ""
    THEN (IF Truthy(completed) THEN "[x]" ELSE "[ ]")
    ELSE ""

\* faulty variant: the endDate segment is put after the timezone segment
EventLineEndDateLast(checkbox, title, start, end, end_date, timezone) ==
    "- " \o checkbox \o " " \o title \o "  [startTime:: " \o start \o "]  "
    \o "[endTime:: " \o end \o "]  [timezone:: " \o timezone \o "]"
    \o (IF end_date # "" THEN "  [endDate:: " \o end_date \o "]" ELSE "")

\* the synthesized event line (lines 105-114)
EventLine(checkbox, title, start, end, end_date, timezone) ==
    IF end_date # ""
    THEN "- " \o checkbox \o " " \o title \o "  [startTime:: " \o start \o "]  "
         \o "[endTime:: " \o end \o "]  [endDate:: " \o end_date
         \o "]  [timezone:: " \o timezone \o "]"
    ELSE "- " \o checkbox \o " " \o title \o "  [startTime:: " \o start \o "]  "
         \o "[endTime:: " \o end \o "]  [timezone:: " \o timezone \o "]"

\* the date keys of an aggregate
Keys(agg) == {agg[i].date : i \in 1..Len(agg)}

\* events_by_date[date]: the defaultdict creates a missing entry at the end
Entry(agg, date) ==
    IF date \in Keys(agg) THEN agg
    ELSE Append(agg, [date |-> date, events |-> <<>>, diary |-> <<>>])

\* events_by_date[date]["events"].append(event_line)
AppendEvent(agg, date, event_line) ==
    LET a == Entry(agg, date)
    IN [i \in 1..Len(a) |->
           IF a[i].date = date
           THEN [a[i] EXCEPT !.events = Append(a[i].events, event_line)]
           ELSE a[i]]

\* faulty variant: the body is inserted at the front of the diary sequence
PrependDiary(agg, date, body) ==
    IF body = "" THEN agg
    ELSE [i \in 1..Len(agg) |->
             IF agg[i].date = date
             THEN [agg[i] EXCEPT !.diary = <<body>> \o agg[i].diary]
             ELSE agg[i]]

\* if body: events_by_date[date]["diary"].append(body)
AppendDiary(agg, date, body) ==
    IF body = "" THEN agg
    ELSE LET a == Entry(agg, date)
         IN [i \in 1..Len(a) |->
                IF a[i].date = date
                THEN [a[i] EXCEPT !.diary = Append(a[i].diary, body)]
                ELSE a[i]]

\* the locals of a call that returned before building an event line
NoLocals ==
    [date |-> "", title |-> "", timezone |-> "", start |-> "", end |-> "",
     end_date |-> "", completed |-> "", checkbox |-> "", event_line |-> "", body |-> ""]

\* the locals of process_markdown_file for a readable file (lines 78-114);
\* frontmatter.get("date") gives None for a missing key, modelled as "" because
\* the only use of the value before the return is 'if not date'
Locals(content) ==
    IF ~StartsWith(content, Dashes) THEN NoLocals
    ELSE LET r == extract_frontmatter(content)
             fm == r.frontmatter
             date == Get(fm, "date", "")
             title == Get(fm, "title", "Untitled")
             timezone == Get(fm, "timezone", "")
             start == Get(fm, "startTime", "")
             end == Get(fm, "endTime", "")
             end_date == Get(fm, "endDate", "")
             completed == Get(fm, "completed", "")
             checkbox == Checkbox(completed)
         IN IF date = "" THEN NoLocals
            ELSE [date |-> date, title |-> title, timezone |-> timezone,
                  start |-> start, end |-> end, end_date |-> end_date,
                  completed |-> completed, checkbox |-> checkbox,
                  event_line |-> EventLine(checkbox, title, start, end, end_date, timezone),
                  body |-> Str(r.body)]

\* faulty variant: the 'if not date: return' is missing
process_markdown_file_NoDateCheck(agg, content) ==
    LET r == extract_frontmatter(content)
        date == Get(r.frontmatter, "date", "")
        line == EventLine("", Get(r.frontmatter, "title", "Untitled"), "", "", "", "")
    IN IF ~StartsWith(content, Dashes) THEN agg
       ELSE [i \in 1..(Len(agg) + 1) |->
                IF i <= Len(agg) THEN agg[i]
                ELSE [date |-> date, events |-> <<line>>, diary |-> <<>>]]

\* the aggregate after process_markdown_file on a readable file (lines 78-119)
process_markdown_file(agg, content) ==
    LET l == Locals(content)
    IN IF l.date = "" THEN agg
       ELSE AppendDiary(AppendEvent(agg, l.date, l.event_line), l.date, l.body)

(***************************************************************************)
(* write_aggregated_files                                                  *)
(***************************************************************************)
\* faulty variant: the diary bodies are written without their newline
FileChunksBareDiary(data) ==
    <<"## Events\n">>
    \o [i \in 1..Len(data.events) |-> data.events[i] \o "\n"]
    \o <<"## Diary\n">>
    \o data.diary

\* the f.write calls for one date (lines 134-139)
FileChunks(data) ==
    <<"## Events\n">>
    \o [i \in 1..Len(data.events) |-> data.events[i] \o "\n"]
    \o <<"## Diary\n">>
    \o [i \in 1..Len(data.diary) |-> data.diary[i] \o "\n"]

\* EXPORT_DIR / f"{date}.md", relative to exported/
OutputName(date) == date \o ".md"

\* open(output_path, "w") and the writes: the file is created or replaced
WriteFile(fs, name, chunks) ==
    [n \in (DOMAIN fs) \cup {name} |-> IF n = name THEN chunks ELSE fs[n]]

\* the entry of a date key
DataOf(agg, date) == agg[CHOOSE i \in 1..Len(agg) : agg[i].date = date]

\* the date keys in events_by_date.items() order
KeyOrder(agg) == [i \in 1..Len(agg) |-> agg[i].date]

(***************************************************************************)
(* The converter as a state machine: main() walks the directory, hands     *)
(* every markdown file to process_markdown_file, then flushes.  The         *)
(* aggregate is created once, when the module is loaded (line 36).          *)
(***************************************************************************)
RtIdle == [stage |-> "off", text |-> <<>>, fm |-> <<>>, text2 |-> <<>>, fm2 |-> <<>>]

EvIdle == [type |-> "none"]

\* the watcher before main() has started the observer
WatchIdle == [stage |-> "off", queue |-> <<>>, log |-> <<>>]

\* the daily note generator before gen_events_for_day is called
DayIdle == [stage |-> "off", count |-> 0, done |-> 0, t |-> 0, events |-> <<>>, lines |-> <<>>]

\* the state after the module is loaded (lines 32-36)
ConvLoaded ==
    /\ pc = "idle"
    /\ todo = <<>>
    /\ events_by_date = <<>>
    /\ flushq = <<>>
    /\ exported = [n \in {} |-> <<>>]
    /\ runs = 0
    /\ flushes = 0
    /\ last = [content |-> <<>>, locals |-> NoLocals]

Init ==
    /\ dir \in Directories
    /\ ConvLoaded
    /\ rt = RtIdle
    /\ ev = EvIdle
    /\ out_dir = [n \in {} |-> <<>>]
    /\ watch = WatchIdle
    /\ day = DayIdle

\* main() is called (line 141): nothing resets events_by_date
MainStart ==
    /\ pc \in {"idle", "done"}
    /\ runs < MaxRuns
    /\ pc' = "walk"
    /\ todo' = dir
    /\ runs' = runs + 1
    /\ flushes' = 0
    /\ UNCHANGED <<dir, events_by_date, flushq, exported, last, rt, ev, out_dir, watch, day>>

\* process_markdown_file on the next file of the walk, which can be read
ProcessNote ==
    /\ pc = "walk"
    /\ todo # <<>>
    /\ Head(todo).readable
    /\ events_by_date' = process_markdown_file(events_by_date, Head(todo).text)
    /\ last' = [content |-> Head(todo).text, locals |-> Locals(Head(todo).text)]
    /\ todo' = Tail(todo)
    /\ UNCHANGED <<dir, pc, flushq, exported, runs, flushes, rt, ev, out_dir, watch, day>>

\* open()/read() of the next file raises (lines 75-76, outside the try block):
\* the exception leaves process_markdown_file and main()
ProcessNoteRaises ==
    /\ pc = "walk"
    /\ todo # <<>>
    /\ ~Head(todo).readable
    /\ pc' = "walk_aborted"
    /\ UNCHANGED <<dir, todo, events_by_date, flushq, exported, runs, flushes, last,
                   rt, ev, out_dir, watch, day>>

\* the walk is over: main() calls write_aggregated_files (line 156)
BeginFlush ==
    /\ pc = "walk"
    /\ todo = <<>>
    /\ pc' = "flush"
    /\ flushq' = KeyOrder(events_by_date)
    /\ flushes' = flushes + 1
    /\ UNCHANGED <<dir, todo, events_by_date, exported, runs, last, rt, ev, out_dir, watch, day>>

\* one iteration of the loop of write_aggregated_files whose open() succeeds
WriteDateFile ==
    /\ pc = "flush"
    /\ flushq # <<>>
    /\ exported' = WriteFile(exported, OutputName(Head(flushq)),
                             FileChunks(DataOf(events_by_date, Head(flushq))))
    /\ flushq' = Tail(flushq)
    /\ UNCHANGED <<dir, pc, todo, events_by_date, runs, flushes, last, rt, ev, out_dir, watch, day>>

\* open(output_path, "w") raises (line 133): nothing catches it, the loop and
\* main() are left
WriteDateFileRaises ==
    /\ pc = "flush"
    /\ flushq # <<>>
    /\ pc' = "flush_aborted"
    /\ UNCHANGED <<dir, todo, events_by_date, flushq, exported, runs, flushes, last,
                   rt, ev, out_dir, watch, day>>

\* the loop is over: main() prints and returns (line 157)
EndFlush ==
    /\ pc = "flush"
    /\ flushq = <<>>
    /\ pc' = "done"
    /\ UNCHANGED <<dir, todo, events_by_date, flushq, exported, runs, flushes, last,
                   rt, ev, out_dir, watch, day>>

Next ==
    \/ MainStart
    \/ ProcessNote
    \/ ProcessNoteRaises
    \/ BeginFlush
    \/ WriteDateFile
    \/ WriteDateFileRaises
    \/ EndFlush

Spec == Init /\ [][Next]_vars

(***************************************************************************)
(* Properties of the converter.                                            *)
(***************************************************************************)
IsPrefix(a, b) == Len(a) <= Len(b) /\ SubSeq(b, 1, Len(a)) = a

RECURSIVE Concat(_)
\* the content of a file: its chunks in the order written
Concat(chunks) == IF chunks = <<>> THEN "" ELSE Head(chunks) \o Concat(Tail(chunks))

RECURSIVE JoinLines(_)
\* every entry followed by a newline
JoinLines(entries) ==
    IF entries = <<>> THEN "" ELSE Head(entries) \o "\n" \o JoinLines(Tail(entries))

\* the chunks of a file after its '## Diary' heading
DiarySection(chunks) ==
    LET h == CHOOSE i \in 1..Len(chunks) : chunks[i] = "## Diary\n"
    IN SubSeq(chunks, h + 1, Len(chunks))

HasKey(fm, name) == \E i \in 1..Len(fm) : Str(fm[i].k) = name

\* the mapping extract_frontmatter gives for a text
FrontmatterOf(text) == extract_frontmatter(text).frontmatter

\* one step keeps every date key at its place and every sequence as a prefix
AppendOnlyStep ==
    /\ Len(events_by_date) <= Len(events_by_date')
    /\ \A i \in 1..Len(events_by_date) :
          /\ events_by_date'[i].date = events_by_date[i].date
          /\ IsPrefix(events_by_date[i].events, events_by_date'[i].events)
          /\ IsPrefix(events_by_date[i].diary, events_by_date'[i].diary)

\* after a run, the bodies of two same-date notes are in the Diary section of
\* the date's file, the earlier note's body first
BodiesInInputOrder ==
    \A i, j \in 1..Len(dir) :
        (/\ i < j
         /\ dir[i].readable
         /\ dir[j].readable
         /\ Locals(dir[i].text).date # ""
         /\ Locals(dir[i].text).date = Locals(dir[j].text).date
         /\ Locals(dir[i].text).body # ""
         /\ Locals(dir[j].text).body # "")
        => LET ds == DiarySection(exported[OutputName(Locals(dir[i].text).date)])
           IN \E a, b \in 1..Len(ds) :
                 /\ a < b
                 /\ ds[a] = Locals(dir[i].text).body \o "\n"
                 /\ ds[b] = Locals(dir[j].text).body \o "\n"

\* C1: every step leaves each date's 'events' and 'diary' sequences as prefixes
\* of the new ones (entries are only appended, never removed, replaced or
\* reordered), and after a completed run the Diary section of a date's file
\* holds the bodies of two same-date notes in the order they were processed.
C1_AppendOnlyUntilFlush ==
    [][AppendOnlyStep]_vars /\ [](pc = "done" => BodiesInInputOrder)

C1_Witness ==
    /\ pc = "done"
    /\ dir = <<Readable(NoteCall), Readable(NoteTrip)>>
    /\ DiarySection(exported["2025-07-21.md"]) = <<"Followed up.\n", "Packed.\n">>

\* C2: for a note with a non-empty date the checkbox token is "[x]" for every
\* non-empty 'completed' value ('true' and 'false' alike), the empty string when
\* 'completed' is absent or empty, and never "[ ]".
C2_CheckboxToken ==
    LET l == last.locals
        fm == FrontmatterOf(last.content)
    IN l.date # "" =>
          /\ (HasKey(fm, "completed") /\ Get(fm, "completed", "") # "")
                => l.checkbox = "[x]"
          /\ (~HasKey(fm, "completed") \/ Get(fm, "completed", "") = "")
                => l.checkbox = ""
          /\ l.checkbox # "[ ]"
          /\ last.content = NoteCall => l.checkbox = "[x]"
          /\ last.content = NoteDone => l.checkbox = "[x]"
          /\ last.content = NoteTrip => l.checkbox = ""
          /\ last.content = NoteOpen => l.checkbox = ""

C2_Witness ==
    /\ last.content = NoteDone
    /\ Get(FrontmatterOf(last.content), "completed", "") = "false"
    /\ last.locals.checkbox = "[x]"

\* the value of a key, the given default when the key is absent
ValueOr(fm, name, default) == IF HasKey(fm, name) THEN Get(fm, name, "") ELSE default

\* C3: for a note with a non-empty date the event line is
\* '- {checkbox} {title}  [startTime:: {start}]  [endTime:: {end}]  [timezone:: {tz}]'
\* with '[endDate:: {end_date}]' between the endTime and timezone segments exactly
\* when endDate is present and non-empty; an absent title is 'Untitled', absent
\* startTime/endTime/timezone are empty; the line is the one appended.
C3_EventLineFormat ==
    LET l == last.locals
        fm == FrontmatterOf(last.content)
        events == DataOf(events_by_date, l.date).events
    IN l.date # "" =>
          /\ l.event_line =
                "- " \o l.checkbox \o " " \o ValueOr(fm, "title", "Untitled")
                \o "  [startTime:: " \o ValueOr(fm, "startTime", "") \o "]"
                \o "  [endTime:: " \o ValueOr(fm, "endTime", "") \o "]"
                \o (IF HasKey(fm, "endDate") /\ Get(fm, "endDate", "") # ""
                    THEN "  [endDate:: " \o Get(fm, "endDate", "") \o "]"
                    ELSE "")
                \o "  [timezone:: " \o ValueOr(fm, "timezone", "") \o "]"
          /\ events[Len(events)] = l.event_line
          /\ last.content = NoteCall => l.event_line =
                "- [x] Call  [startTime:: 09:00]  [endTime:: 10:00]  [timezone:: Europe/Budapest]"
          /\ last.content = NoteTrip => l.event_line =
                "-  Untitled  [startTime:: 08:00]  [endTime:: ]  [endDate:: 2025-07-23]  [timezone:: ]"
          /\ last.content = NoteOpen => l.event_line =
                "-    [startTime:: ]  [endTime:: ]  [timezone:: ]"

C3_Witness ==
    /\ last.content = NoteTrip
    /\ last.locals.end_date = "2025-07-23"
    /\ events_by_date[1].events[Len(events_by_date[1].events)] =
          "-  Untitled  [startTime:: 08:00]  [endTime:: ]  [endDate:: 2025-07-23]  [timezone:: ]"

\* the distinct non-empty date values of the notes of the directory
DatesOfNotes ==
    {Get(FrontmatterOf(dir[i].text), "date", "") :
        i \in {k \in 1..Len(dir) : dir[k].readable /\ StartsWith(dir[k].text, Dashes)}}
    \ {""}

\* C4: when write_aggregated_files has returned there is exactly one file
\* '{date}.md' per date key, the date keys are the distinct non-empty dates of the
\* processed notes, and each file is '## Events', the date's event lines,
\* '## Diary', the date's diary bodies, every line newline-terminated; the
\* documented example note alone gives the documented file.
C4_FlushOutput ==
    pc = "done" =>
       /\ DOMAIN exported = {d \o ".md" : d \in Keys(events_by_date)}
       /\ Keys(events_by_date) = DatesOfNotes
       /\ Len(events_by_date) = Cardinality(Keys(events_by_date))
       /\ \A i \in 1..Len(events_by_date) :
             Concat(exported[events_by_date[i].date \o ".md"]) =
                "## Events\n" \o JoinLines(events_by_date[i].events)
                \o "## Diary\n" \o JoinLines(events_by_date[i].diary)
       /\ (dir = <<Readable(NoteCall)>> /\ runs = 1) =>
             /\ DOMAIN exported = {"2025-07-21.md"}
             /\ Concat(exported["2025-07-21.md"]) =
                   "## Events\n- [x] Call  [startTime:: 09:00]  [endTime:: 10:00]  [timezone:: Europe/Budapest]\n## Diary\nFollowed up.\n"

C4_Witness ==
    /\ pc = "done"
    /\ runs = 1
    /\ dir = <<Readable(NoteCall)>>
    /\ Concat(exported["2025-07-21.md"]) =
          "## Events\n- [x] Call  [startTime:: 09:00]  [endTime:: 10:00]  [timezone:: Europe/Budapest]\n## Diary\nFollowed up.\n"

\* a note process_markdown_file returns from before building an event line
Skipped(text) ==
    \/ ~StartsWith(text, Dashes)
    \/ ~FrontmatterMatch(text).ok
    \/ ~HasKey(FrontmatterOf(text), "date")
    \/ Get(FrontmatterOf(text), "date", "") = ""

RunEnded == pc \in {"done", "walk_aborted", "flush_aborted"}

\* C6: a failure while handling one note, a failure to open or read the file
\* included, is caught for that note alone: whenever a run has ended every file
\* of the walk was handed to process_markdown_file and write_aggregated_files
\* was called.
C6_NoNoteAbortsRun == RunEnded => (todo = <<>> /\ flushes = 1)

\* C7: a write failure for one date's file aborts only that file: whenever the
\* flush has ended, every date key other than the one whose open() failed has
\* its file, with the date's current content.
C7_WriteFailureIsolated ==
    pc \in {"done", "flush_aborted"} =>
       \A d \in Keys(events_by_date) :
          (pc = "flush_aborted" /\ d = Head(flushq))
          \/ (/\ OutputName(d) \in DOMAIN exported
              /\ exported[OutputName(d)] = FileChunks(DataOf(events_by_date, d)))

\* C8: the aggregate is empty at the start of every run of main() (nothing is
\* carried over from an earlier run), and a run flushes at most once.
C8_FreshAggregatePerRun ==
    /\ (pc = "walk" /\ Len(todo) = Len(dir)) => events_by_date = <<>>
    /\ flushes <= 1

(***************************************************************************)
(* Round trip of extract_frontmatter through 'key: value' lines.           *)
(***************************************************************************)
\* a value that itself holds a ':'
LineTime == <<"s","t","a","r","t","T","i","m","e",":"," ","0","9",":","0","0">>

\* whitespace around key and value
LineTitle == <<" "," ","t","i","t","l","e"," ",":"," "," ","C","a","l","l"," ">>

\* no ':' at all
LineBare == <<"n","o","t","e","s">>

\* an empty value
LineDate == <<"d","a","t","e",":">>

\* no space after the ':'
LineZone == <<"t","z",":","U","T","C">>

\* an indented line whose key begins with dashes
LineDashKey == <<" ","-","-","-","k",":"," ","v">>

LinePool == {LineTime, LineTitle, LineBare, LineDate, LineZone, LineDashKey}

RECURSIVE JoinWithNewline(_)
JoinWithNewline(lines) ==
    IF lines = <<>> THEN <<>> ELSE Head(lines) \o <<"\n">> \o JoinWithNewline(Tail(lines))

\* the frontmatter blocks of at most MaxLines distinct lines (so keys are
\* unique) between a leading '---' line and the next '---' line, with a body
Blocks ==
    {Dashes \o <<"\n">> \o JoinWithNewline(ls) \o Dashes \o <<"\n","B","o","d","y">> :
        ls \in {x \in UNION {[1..n -> LinePool] : n \in 1..MaxLines} :
                   \A i, j \in 1..Len(x) : i # j => x[i] # x[j]}}

RECURSIVE SerializePairs(_)
SerializePairs(fm) ==
    IF fm = <<>> THEN <<>>
    ELSE Head(fm).k \o <<":", " ">> \o Head(fm).v \o <<"\n">> \o SerializePairs(Tail(fm))

\* the mapping written back as a frontmatter block of 'key: value' lines, the
\* way the generators write a Full Note ("---\n", the lines, "---\n\n")
Serialize(fm) == Dashes \o <<"\n">> \o SerializePairs(fm) \o Dashes \o <<"\n", "\n">>

ParseInit ==
    /\ dir = <<>>
    /\ ConvLoaded
    /\ rt \in {[stage |-> "input", text |-> t, fm |-> <<>>, text2 |-> <<>>, fm2 |-> <<>>] :
                  t \in Blocks}
    /\ ev = EvIdle
    /\ out_dir = [n \in {} |-> <<>>]
    /\ watch = WatchIdle
    /\ day = DayIdle

RtParse ==
    /\ rt.stage = "input"
    /\ rt' = [rt EXCEPT !.stage = "parsed", !.fm = extract_frontmatter(rt.text).frontmatter]
    /\ UNCHANGED <<convVars, ev, out_dir, watch, day>>

RtSerialize ==
    /\ rt.stage = "parsed"
    /\ rt' = [rt EXCEPT !.stage = "serialized", !.text2 = Serialize(rt.fm)]
    /\ UNCHANGED <<convVars, ev, out_dir, watch, day>>

RtReparse ==
    /\ rt.stage = "serialized"
    /\ rt' = [rt EXCEPT !.stage = "reparsed", !.fm2 = extract_frontmatter(rt.text2).frontmatter]
    /\ UNCHANGED <<convVars, ev, out_dir, watch, day>>

ParseNext == RtParse \/ RtSerialize \/ RtReparse

ParseSpec == ParseInit /\ [][ParseNext]_vars

\* the key/value pairs of a mapping, as strings
Pairs(fm) == {<<Str(fm[i].k), Str(fm[i].v)>> : i \in 1..Len(fm)}

\* C9: for every frontmatter block of 'key: value' lines with unique keys,
\* parsing, writing the mapping back as 'key: value' lines and parsing again
\* gives the same key/value pairs.
C9_RoundTrip == rt.stage = "reparsed" => Pairs(rt.fm2) = Pairs(rt.fm)

(***************************************************************************)
(* Filename codec of generate_full_note_calendar.py.                       *)
(* Optional[T] is a sequence: <<>> for None, <<x>> for a value x.          *)
(***************************************************************************)
None == <<>>

Some(x) == <<x>>

\* the truth value Python gives an Optional[str]
TruthyStr(o) == o # None /\ o[1] # ""

\* the truth value Python gives an Optional[int]
TruthyInt(o) == o # None /\ o[1] # 0

Digits == <<"0", "1", "2", "3", "4", "5", "6", "7", "8", "9">>

RECURSIVE Dec(_)
\* str(n) of a non-negative int: no padding
Dec(n) == IF n < 10 THEN Digits[n + 1] ELSE Dec(n \div 10) \o Digits[(n % 10) + 1]

\* the format specs {:02d} and {:04d}
Pad2(n) == IF n < 10 THEN "0" \o Dec(n) ELSE Dec(n)

Pad4(n) ==
    IF n < 10 THEN "000" \o Dec(n)
    ELSE IF n < 100 THEN "00" \o Dec(n)
    ELSE IF n < 1000 THEN "0" \o Dec(n)
    ELSE Dec(n)

\* datetime.date.isoformat()
IsoFormat(d) == Pad4(d.year) \o "-" \o Pad2(d.month) \o "-" \o Pad2(d.day)

\* calendar.month_abbr[1..12] (C locale)
MonthAbbr ==
    <<"Jan", "Feb", "Mar", "Apr", "May", "Jun", "Jul", "Aug", "Sep", "Oct", "Nov", "Dec">>

\* DOW[1:6]: the weekday codes the generator draws from
WeekdayCodes == <<"M", "T", "W", "R", "F">>

Max0(n) == IF n > 0 THEN n ELSE 0

fmt_hhmm(total_minutes) ==
    Pad2(Max0(total_minutes) \div 60) \o ":" \o Pad2(Max0(total_minutes) % 60)

build_constructed_title(category, sub, title) ==
    IF TruthyStr(category) /\ TruthyStr(sub)
    THEN category[1] \o " - " \o sub[1] \o " - " \o title
    ELSE IF TruthyStr(category)
    THEN category[1] \o " - " \o title
    ELSE title

RECURSIVE JoinComma(_)
JoinComma(codes) ==
    IF codes = <<>> THEN ""
    ELSE IF Len(codes) = 1 THEN codes[1]
    ELSE codes[1] \o "," \o JoinComma(Tail(codes))

\* faulty variant: the codes are joined in calendar order
JoinCodesSorted(codes) ==
    LET present == {i \in 1..Len(WeekdayCodes) :
                       \E j \in 1..Len(codes) : codes[j] = WeekdayCodes[i]}
        Rank(i) == Cardinality({k \in present : k <= i})
    IN JoinComma([r \in 1..Cardinality(present) |->
                     WeekdayCodes[CHOOSE i \in present : Rank(i) = r]])

\* ','.join(ev.days_of_week)
JoinCodes(codes) == JoinComma(codes)

\* the file name of write_single (line 165)
SingleFilename(e) ==
    IsoFormat(e.date) \o " " \o build_constructed_title(e.category, e.subcategory, e.title)
    \o ".md"

\* the file name of write_recurring (lines 188-204)
RecurringFilename(e) ==
    LET constructed_title == build_constructed_title(e.category, e.subcategory, e.title)
        base ==
            IF e.days_of_week # None /\ e.days_of_week[1] # <<>>
            THEN "(Every " \o JoinCodes(e.days_of_week[1]) \o ") " \o constructed_title
            ELSE IF TruthyInt(e.month) /\ TruthyInt(e.day_of_month)
            THEN "(Every year on " \o MonthAbbr[e.month[1]] \o " " \o Dec(e.day_of_month[1])
                 \o ") " \o constructed_title
            ELSE IF TruthyInt(e.day_of_month)
            THEN "(Every month on the " \o Dec(e.day_of_month[1]) \o ") " \o constructed_title
            ELSE "(Recurring) " \o constructed_title
    IN base \o ".md"

\* ev.end or (ev.start or 0) + 60
OrElse(o, default) == IF TruthyInt(o) THEN o[1] ELSE default

\* the text write_single writes (lines 168-184)
SingleContent(e) ==
    LET constructed_title == build_constructed_title(e.category, e.subcategory, e.title)
    IN <<"---\n", "title: " \o constructed_title \o "\n", "type: single\n",
         "date: " \o IsoFormat(e.date) \o "\n">>
       \o (IF e.all_day THEN <<"allDay: true\n">>
           ELSE <<"allDay: false\n",
                  "startTime: " \o fmt_hhmm(OrElse(e.start, 0)) \o "\n",
                  "endTime: " \o fmt_hhmm(OrElse(e.end, OrElse(e.start, 0) + 60)) \o "\n">>)
       \o <<"timezone: " \o e.tz \o "\n", "---\n\n",
            "# " \o constructed_title \o "\n\n", "Notes...\n">>

\* the text write_recurring writes (lines 207-232)
RecurringContent(e) ==
    LET constructed_title == build_constructed_title(e.category, e.subcategory, e.title)
    IN <<"---\n", "title: " \o constructed_title \o "\n", "type: recurring\n">>
       \o (IF e.days_of_week # None /\ e.days_of_week[1] # <<>>
           THEN <<"daysOfWeek: [" \o JoinComma(e.days_of_week[1]) \o "]\n">> ELSE <<>>)
       \o (IF e.month # None THEN <<"month: " \o Dec(e.month[1]) \o "\n">> ELSE <<>>)
       \o (IF e.day_of_month # None
           THEN <<"dayOfMonth: " \o Dec(e.day_of_month[1]) \o "\n">> ELSE <<>>)
       \o (IF e.start_time = None THEN <<"allDay: true\n">>
           ELSE <<"allDay: false\n",
                  "startTime: " \o fmt_hhmm(e.start_time[1]) \o "\n",
                  "endTime: " \o fmt_hhmm(OrElse(e.end_time, e.start_time[1] + 60)) \o "\n">>)
       \o <<"timezone: " \o e.tz \o "\n", "---\n\n",
            "# " \o constructed_title \o "\n\n", "Recurring event note...\n">>

(***************************************************************************)
(* The events handed to the codec, and its two writers as actions.         *)
(***************************************************************************)
\* category, subcategory and title of an event
Titles ==
    {[category |-> None, subcategory |-> None, title |-> "Work - Team - Standup"],
     [category |-> Some("Work"), subcategory |-> Some("Team"), title |-> "Standup"],
     [category |-> Some("Work"), subcategory |-> None, title |-> "Standup"],
     [category |-> None, subcategory |-> Some("Team"), title |-> "Standup"]}

Dates ==
    {[year |-> 2025, month |-> 7, day |-> 21], [year |-> 2026, month |-> 1, day |-> 5]}

\* the weekday selections random.sample(DOW[1:6], k) can give, k up to MaxDays
DaySelections ==
    {x \in UNION {[1..n -> {WeekdayCodes[i] : i \in 1..Len(WeekdayCodes)}] : n \in 1..MaxDays} :
        \A i, j \in 1..Len(x) : i # j => x[i] # x[j]}

\* the days of month of the model: random.randint(1, 28) at its ends and around 10
DaysOfMonth == {1, 9, 10, 28}

SingleEvents ==
    {[type |-> "single", date |-> d, all_day |-> a,
      start |-> IF a THEN None ELSE Some(540), end |-> IF a THEN None ELSE Some(600),
      tz |-> "Europe/Budapest",
      category |-> t.category, subcategory |-> t.subcategory, title |-> t.title] :
        d \in Dates, a \in BOOLEAN, t \in Titles}

Recurrences ==
    {[days_of_week |-> Some(x), month |-> None, day_of_month |-> None] : x \in DaySelections}
    \cup {[days_of_week |-> None, month |-> None, day_of_month |-> Some(n)] :
             n \in DaysOfMonth}
    \cup {[days_of_week |-> None, month |-> Some(m), day_of_month |-> Some(n)] :
             m \in 1..12, n \in DaysOfMonth}

RecurringEvents ==
    {[type |-> "recurring", days_of_week |-> r.days_of_week, month |-> r.month,
      day_of_month |-> r.day_of_month, start_time |-> Some(1110), end_time |-> Some(1200),
      tz |-> "Europe/Budapest",
      category |-> t.category, subcategory |-> t.subcategory, title |-> t.title] :
        r \in Recurrences, t \in Titles}

CodecInit ==
    /\ dir = <<>>
    /\ ConvLoaded
    /\ rt = RtIdle
    /\ ev \in SingleEvents \cup RecurringEvents
    /\ out_dir = [n \in {} |-> <<>>]
    /\ watch = WatchIdle
    /\ day = DayIdle

\* write_single(out_dir, ev)
write_single ==
    /\ ev.type = "single"
    /\ DOMAIN out_dir = {}
    /\ out_dir' = WriteFile(out_dir, SingleFilename(ev), SingleContent(ev))
    /\ UNCHANGED <<convVars, rt, ev, watch, day>>

\* write_recurring(out_dir, ev)
write_recurring ==
    /\ ev.type = "recurring"
    /\ DOMAIN out_dir = {}
    /\ out_dir' = WriteFile(out_dir, RecurringFilename(ev), RecurringContent(ev))
    /\ UNCHANGED <<convVars, rt, ev, watch, day>>

CodecNext == write_single \/ write_recurring

CodecSpec == CodecInit /\ [][CodecNext]_vars

\* the numerals 1..28, as the codec is to write a day of month
DayNumerals ==
    <<"1", "2", "3", "4", "5", "6", "7", "8", "9", "10", "11", "12", "13", "14",
      "15", "16", "17", "18", "19", "20", "21", "22", "23", "24", "25", "26", "27", "28">>

\* the constructed title by presence of category and subcategory
ExpectedTitle(e) ==
    IF e.category # None /\ e.subcategory # None
    THEN e.category[1] \o " - " \o e.subcategory[1] \o " - " \o e.title
    ELSE IF e.category # None
    THEN e.category[1] \o " - " \o e.title
    ELSE e.title

\* the ISO text of the dates of the model
ExpectedIso(d) ==
    IF d = [year |-> 2025, month |-> 7, day |-> 21] THEN "2025-07-21" ELSE "2026-01-05"

\* the file name the codec is to give an event
ExpectedFilename(e) ==
    IF e.type = "single"
    THEN ExpectedIso(e.date) \o " " \o ExpectedTitle(e) \o ".md"
    ELSE IF e.days_of_week # None
    THEN "(Every " \o JoinComma(e.days_of_week[1]) \o ") " \o ExpectedTitle(e) \o ".md"
    ELSE IF e.month # None
    THEN "(Every year on " \o MonthAbbr[e.month[1]] \o " " \o DayNumerals[e.day_of_month[1]]
         \o ") " \o ExpectedTitle(e) \o ".md"
    ELSE "(Every month on the " \o DayNumerals[e.day_of_month[1]] \o ") "
         \o ExpectedTitle(e) \o ".md"

\* the weekly event of days M, W, F titled 'Work - Team - Standup'
StandupEvent ==
    [type |-> "recurring", days_of_week |-> Some(<<"M", "W", "F">>), month |-> None,
     day_of_month |-> None, start_time |-> Some(1110), end_time |-> Some(1200),
     tz |-> "Europe/Budapest", category |-> None, subcategory |-> None,
     title |-> "Work - Team - Standup"]

TZ_CHOICES ==
    <<"Europe/Budapest", "America/New_York", "Europe/London", "Asia/Tokyo", "Australia/Sydney">>

CATEGORIES ==
    [Work |-> <<"Project Alpha", "Project Beta", "Team", "Clients">>,
     Personal |-> <<"Health", "Family", "Finance", "Hobby">>,
     Fitness |-> <<"Running", "Gym", "Yoga">>,
     Learning |-> <<"Course", "Reading", "Practice">>,
     Errands |-> <<"Shopping", "Home", "Car">>]

TITLE_TAILS ==
    <<"Sprint Planning", "Daily Standup", "1:1", "Client Call", "Design Session",
      "Code Review", "Deep Work", "Workshop", "Brainstorm", "Morning Run", "Gym Session",
      "Yoga Flow", "Study Block", "Reading", "Grocery Run">>

DOW == <<"U", "M", "T", "W", "R", "F", "S">>

\* the outcomes of random.choice(seq) the model follows: the first and the last element
Choice(seq) == {seq[1], seq[Len(seq)]}

\* the outcomes of random.randint(lo, hi) the model follows where the full range
\* is too large: both ends and the middle
RandIntEnds(lo, hi) == {lo, (lo + hi) \div 2, hi}

\* (cat, sub) with sub drawn from the list of cat
pick_category ==
    {[cat |-> "Work", sub |-> x] : x \in Choice(CATEGORIES["Work"])}
    \cup {[cat |-> "Errands", sub |-> x] : x \in {CATEGORIES["Errands"][1]}}

\* the title tail of the model: random.choice(TITLE_TAILS) at its first element
TailChoice == {TITLE_TAILS[1]}

SingleEvent(d, all_day, start, end, tz, category, subcategory, title) ==
    [type |-> "single", date |-> d, all_day |-> all_day, start |-> start, end |-> end,
     tz |-> tz, category |-> category, subcategory |-> subcategory, title |-> title]

RecurringEvent(days_of_week, month, day_of_month, start_time, end_time, tz, category, sub, title) ==
    [type |-> "recurring", days_of_week |-> days_of_week, month |-> month,
     day_of_month |-> day_of_month, start_time |-> start_time, end_time |-> end_time,
     tz |-> tz, category |-> category, subcategory |-> sub, title |-> title]

Min(a, b) == IF a < b THEN a ELSE b

\* a faulty end of a timed event: clamped at noon instead of 22:00
SingleEndClampedAtNoon(start, dur) == Min(start + dur, 12 * 60)

\* end = min(start + dur, 22 * 60)
SingleEnd(start, dur) == Min(start + dur, 22 * 60)

\* a faulty monthly event: the day of month lands in the month position
MonthlyEventDayAsMonth(dom, start, end, tz, category, sub, title) ==
    RecurringEvent(None, Some(dom), None, Some(start), Some(end), tz, Some(category),
                   Some(sub), title)

\* the monthly branch's return: RecurringEvent(None, None, dom, ...)
MonthlyEvent(dom, start, end, tz, category, sub, title) ==
    RecurringEvent(None, None, Some(dom), Some(start), Some(end), tz, Some(category),
                   Some(sub), title)

\* random.sample(DOW[1:6], k = random.randint(1, 3)): k distinct codes of
\* M T W R F, in any order
WeekdaySamples ==
    {x \in UNION {[1..k -> {DOW[i] : i \in 2..6}] : k \in 1..3} :
        \A i, j \in 1..Len(x) : i # j => x[i] # x[j]}

gen_single_event ==
    /\ ev = EvIdle
    /\ DOMAIN out_dir = {}
    /\ \E d \in Dates, tz \in Choice(TZ_CHOICES), c \in pick_category, title \in TailChoice :
          \/ ev' = SingleEvent(d, TRUE, None, None, tz, Some(c.cat), Some(c.sub), title)
          \/ \E start_of_day \in (7 * 60)..(10 * 60), off \in {0, 15, 30, 45, 60, 90, 120},
                dur \in {30, 45, 60, 75, 90, 120, 150} :
                LET start == start_of_day + off
                    end == SingleEnd(start, dur)
                IN  ev' = SingleEvent(d, FALSE, Some(start), Some(end), tz, Some(c.cat),
                                      Some(c.sub), title)
    /\ UNCHANGED <<convVars, rt, out_dir, watch, day>>

gen_recurring_event ==
    /\ ev = EvIdle
    /\ DOMAIN out_dir = {}
    /\ \E tz \in Choice(TZ_CHOICES), c \in pick_category, title \in TailChoice :
          \/ \E days \in WeekdaySamples, start \in RandIntEnds(8 * 60, 11 * 60),
                len \in {30, 45, 60, 90} :
                ev' = RecurringEvent(Some(days), None, None, Some(start), Some(start + len),
                                     tz, Some(c.cat), Some(c.sub), title)
          \/ \E dom \in 1..28, start \in RandIntEnds(18 * 60, 20 * 60), len \in {60, 90, 120} :
                ev' = MonthlyEvent(dom, start, start + len, tz, c.cat, c.sub, title)
          \/ \E month \in 1..12, dom \in 1..28, start \in RandIntEnds(9 * 60, 17 * 60),
                len \in {60, 90, 120} :
                ev' = RecurringEvent(None, Some(month), Some(dom), Some(start),
                                     Some(start + len), tz, Some(c.cat), Some(c.sub), title)
    /\ UNCHANGED <<convVars, rt, out_dir, watch, day>>

GenInit ==
    /\ dir = <<>>
    /\ ConvLoaded
    /\ rt = RtIdle
    /\ ev = EvIdle
    /\ out_dir = [n \in {} |-> <<>>]
    /\ watch = WatchIdle
    /\ day = DayIdle

GenNext == gen_single_event \/ gen_recurring_event \/ write_single \/ write_recurring

GenSpec == GenInit /\ [][GenNext]_vars

\* the three shapes of a recurrence: weekly on selected weekdays, monthly on a
\* day of month, yearly on a month and a day of month
IsWeekly(e) ==
    /\ e.days_of_week # None
    /\ e.month = None
    /\ e.day_of_month = None
    /\ Len(e.days_of_week[1]) \in 1..3
    /\ \A i \in 1..Len(e.days_of_week[1]) : e.days_of_week[1][i] \in {"M", "T", "W", "R", "F"}
    /\ \A i, j \in 1..Len(e.days_of_week[1]) :
          i # j => e.days_of_week[1][i] # e.days_of_week[1][j]

IsMonthly(e) ==
    /\ e.days_of_week = None
    /\ e.month = None
    /\ e.day_of_month # None
    /\ e.day_of_month[1] \in 1..28

IsYearly(e) ==
    /\ e.days_of_week = None
    /\ e.month # None
    /\ e.month[1] \in 1..12
    /\ e.day_of_month # None
    /\ e.day_of_month[1] \in 1..28

\* the name write_recurring falls back to when no recurrence shape applies
FallbackFilename(e) ==
    "(Recurring) " \o build_constructed_title(e.category, e.subcategory, e.title) \o ".md"

\* C11: every event gen_recurring_event returns has a recurrence of exactly one
\* shape (weekly over 1 to 3 distinct weekdays of M T W R F with no month and no
\* day of month, or monthly on a day 1..28 with no month, or yearly on a month
\* 1..12 and a day 1..28), so the file write_recurring writes for it is named
\* after that shape and never by the "(Recurring) <constructed title>.md" fallback.
C11_GeneratedRecurrenceShape ==
    ev.type = "recurring" =>
        /\ \/ IsWeekly(ev) /\ ~IsMonthly(ev) /\ ~IsYearly(ev)
           \/ ~IsWeekly(ev) /\ IsMonthly(ev) /\ ~IsYearly(ev)
           \/ ~IsWeekly(ev) /\ ~IsMonthly(ev) /\ IsYearly(ev)
        /\ RecurringFilename(ev) = ExpectedFilename(ev)
        /\ RecurringFilename(ev) # FallbackFilename(ev)
        /\ DOMAIN out_dir # {} => DOMAIN out_dir = {ExpectedFilename(ev)}

\* a generated monthly event on day 28 has been written under its monthly name
C11_Witness ==
    /\ ev.type = "recurring"
    /\ IsMonthly(ev)
    /\ ev.day_of_month = Some(28)
    /\ ev.subcategory = Some("Clients")
    /\ DOMAIN out_dir = {"(Every month on the 28) Work - Clients - Sprint Planning.md"}

\* C12: of the events gen_single_event returns, an all-day event has neither a
\* start nor an end, and a timed event has both, with
\* 0 <= start < end <= 22 * 60, so both lie within the day (at most 1439).
C12_SingleEventTimes ==
    ev.type = "single" =>
        IF ev.all_day
        THEN ev.start = None /\ ev.end = None
        ELSE /\ ev.start # None
             /\ ev.end # None
             /\ 0 <= ev.start[1]
             /\ ev.start[1] < ev.end[1]
             /\ ev.end[1] <= 22 * 60
             /\ ev.end[1] <= 1439

\* the latest timed event: start of day 10:00 plus 120, lasting 150 minutes
C12_Witness ==
    /\ ev.type = "single"
    /\ ~ev.all_day
    /\ ev.start = Some(720)
    /\ ev.end = Some(870)
    /\ DOMAIN out_dir # {}

\* ---------------------------------------------------------------------------
\* The device-sync watcher (auto_sync_obsidian.py).  watch.queue holds the
\* notifications the observer has not dispatched yet, watch.log one entry per
\* on_modified call: the event, the targets pushed and how the call ended.
\* A path is the sequence of its components below LOCAL_PLUGIN_PATH.
\* ---------------------------------------------------------------------------

ANDROID_PLUGIN_PATH ==
    "/sdcard/Documents/Obsidian/Dev test obsidian/.obsidian/plugins/plugin-full-calendar"

EXCLUDE_FILES == {".hotreload", ".DS_Store", "Thumbs.db"}

\* os.path.basename
Basename(path) == path[Len(path)]

\* relative_path.replace("\\", "/")
RECURSIVE SlashJoin(_)
SlashJoin(path) ==
    IF Len(path) = 1 THEN path[1] ELSE path[1] \o "/" \o SlashJoin(Tail(path))

\* the notifications of the model: a directory, a plain file, an excluded file
\* at the top and an excluded file inside a directory
Notifications ==
    {[is_directory |-> TRUE, src_path |-> <<"assets">>],
     [is_directory |-> FALSE, src_path |-> <<"main.js">>],
     [is_directory |-> FALSE, src_path |-> <<".hotreload">>],
     [is_directory |-> FALSE, src_path |-> <<"assets", "Thumbs.db">>]}

\* what subprocess.run([ADB_PATH, 'push', ...], check=True) can do: return
\* (exit status 0), raise CalledProcessError (non-zero exit status), or raise
\* OSError because the program at ADB_PATH cannot be started
RunOutcomes == {"ok", "CalledProcessError", "OSError"}

\* on_modified(event) when the push command ends as `run` says
OnModifiedResult(event, run) ==
    IF event.is_directory
    THEN [event |-> event, pushed |-> <<>>, outcome |-> "returned"]
    ELSE IF Basename(event.src_path) \in EXCLUDE_FILES
    THEN [event |-> event, pushed |-> <<>>, outcome |-> "returned"]
    ELSE LET android_target_path == ANDROID_PLUGIN_PATH \o "/" \o SlashJoin(event.src_path)
         IN  [event |-> event,
              pushed |-> <<android_target_path>>,
              outcome |-> IF run \in {"ok", "CalledProcessError"} THEN "returned" ELSE "raised"]

\* main(): the observer is scheduled and started
watch_main ==
    /\ watch.stage = "off"
    /\ watch' = [watch EXCEPT !.stage = "watching"]
    /\ UNCHANGED <<convVars, rt, ev, out_dir, day>>

\* a file below LOCAL_PLUGIN_PATH is modified while the observer runs
notify ==
    /\ watch.stage = "watching"
    /\ Len(watch.queue) + Len(watch.log) < MaxEvents
    /\ \E e \in Notifications : watch' = [watch EXCEPT !.queue = Append(@, e)]
    /\ UNCHANGED <<convVars, rt, ev, out_dir, day>>

\* the observer thread hands the oldest pending notification to on_modified;
\* an exception that leaves on_modified ends the dispatching of this model
on_modified ==
    /\ watch.stage = "watching"
    /\ watch.queue # <<>>
    /\ \E run \in RunOutcomes :
          LET r == OnModifiedResult(Head(watch.queue), run)
          IN  watch' = [stage |-> IF r.outcome = "raised" THEN "raised" ELSE "watching",
                        queue |-> Tail(watch.queue),
                        log |-> Append(watch.log, r)]
    /\ UNCHANGED <<convVars, rt, ev, out_dir, day>>

\* KeyboardInterrupt in main(): observer.stop()
watch_stop ==
    /\ watch.stage = "watching"
    /\ watch' = [watch EXCEPT !.stage = "stopped"]
    /\ UNCHANGED <<convVars, rt, ev, out_dir, day>>

WatchInit ==
    /\ dir = <<>>
    /\ ConvLoaded
    /\ rt = RtIdle
    /\ ev = EvIdle
    /\ out_dir = [n \in {} |-> <<>>]
    /\ watch = WatchIdle
    /\ day = DayIdle

WatchNext == watch_main \/ notify \/ on_modified \/ watch_stop

WatchSpec == WatchInit /\ [][WatchNext]_vars

\* C13: every notification handled so far for a directory or for a file named
\* in EXCLUDE_FILES caused no push, and every one for another file caused
\* exactly one push, after which on_modified returned normally (a failure of
\* the push was caught inside on_modified), so the observer goes on to the
\* next notification.
C13_PushFailureCaught ==
    /\ watch.stage # "raised"
    /\ \A i \in 1..Len(watch.log) :
          LET r == watch.log[i]
          IN  IF r.event.is_directory \/ Basename(r.event.src_path) \in EXCLUDE_FILES
              THEN r.pushed = <<>> /\ r.outcome = "returned"
              ELSE Len(r.pushed) = 1 /\ r.outcome = "returned"

\* ---------------------------------------------------------------------------
\* The daily note generator (generate_daily_note_calendar.py):
\* gen_events_for_day, one loop iteration per step, then write_day_file.
\* Its TZ_CHOICES, CATEGORIES and TITLE_TAILS are the lists defined above.
\* ---------------------------------------------------------------------------

\* the outcomes of random.randint(lo, hi) the model follows for the day start
\* and the gap: the two ends of the range
RandIntBounds(lo, hi) == {lo, hi}

\* fmt_hhmm of the daily note generator
fmt_hhmm_daily(total_minutes) ==
    LET h == Max0(total_minutes) \div 60
        m == Max0(total_minutes) % 60
    IN  Pad2(h) \o ":" \o Pad2(m)

\* build_title(): "{cat} - {sub} - {tail}", at the first element of each list
build_title == "Work" \o " - " \o CATEGORIES["Work"][1] \o " - " \o TITLE_TAILS[1]

GeneratedEvent(title, start, end, tz, completed) ==
    [title |-> title, start |-> start, end |-> end, tz |-> tz, completed |-> completed]

RECURSIVE InsertByStart(_, _)
\* e placed after every element whose start is not greater: list.sort is stable
InsertByStart(sorted, e) ==
    IF sorted = <<>> THEN <<e>>
    ELSE IF e.start < Head(sorted).start THEN <<e>> \o sorted
    ELSE <<Head(sorted)>> \o InsertByStart(Tail(sorted), e)

RECURSIVE SortByStart(_)
\* events.sort(key=lambda e: e.start)
SortByStart(events) ==
    IF events = <<>> THEN <<>>
    ELSE InsertByStart(SortByStart(SubSeq(events, 1, Len(events) - 1)), events[Len(events)])

\* the line write_day_file writes for one event
DayLine(e) ==
    "- " \o (IF e.completed THEN "[x]" ELSE "[ ]") \o " " \o e.title
    \o "  [startTime:: " \o fmt_hhmm_daily(e.start) \o "]  "
    \o "[endTime:: " \o fmt_hhmm_daily(e.end) \o "]  [timezone:: " \o e.tz \o "]\n"

\* gen_events_for_day() up to the loop: count and the day start are drawn
gen_events_for_day ==
    /\ day.stage = "off"
    /\ \E count \in RandIntEnds(4, 8), t \in RandIntBounds(6 * 60, 9 * 60) :
          day' = [day EXCEPT !.stage = "loop", !.count = count, !.t = t]
    /\ UNCHANGED <<convVars, rt, ev, out_dir, watch>>

\* one iteration of `for _ in range(count)`; the model follows the first time
\* zone and the outcome not completed
gen_events_loop ==
    /\ day.stage = "loop"
    /\ day.done < day.count
    /\ \E dur \in Choice(<<30, 45, 60, 75, 90, 120>>), gap \in RandIntBounds(-15, 60) :
          LET start == day.t
              end == start + dur
              t == end + gap
          IN  day' = [day EXCEPT
                        !.events = Append(@, GeneratedEvent(build_title, start, end,
                                                            TZ_CHOICES[1], FALSE)),
                        !.done = @ + 1,
                        !.t = t,
                        !.stage = IF t > 22 * 60 THEN "break" ELSE "loop"]
    /\ UNCHANGED <<convVars, rt, ev, out_dir, watch>>

\* the loop is over (count iterations or break): sort and return
gen_events_return ==
    /\ \/ day.stage = "break"
       \/ day.stage = "loop" /\ day.done = day.count
    /\ day' = [day EXCEPT !.stage = "returned", !.events = SortByStart(@)]
    /\ UNCHANGED <<convVars, rt, ev, out_dir, watch>>

\* write_day_file(path, heading, evs) with the returned events
write_day_file ==
    /\ day.stage = "returned"
    /\ day' = [day EXCEPT
                 !.stage = "written",
                 !.lines = <<"## " \o "Events" \o "\n\n">>
                           \o [i \in 1..Len(day.events) |-> DayLine(day.events[i])]
                           \o <<"\n\n## Diary\n\n">>]
    /\ UNCHANGED <<convVars, rt, ev, out_dir, watch>>

DayInit ==
    /\ dir = <<>>
    /\ ConvLoaded
    /\ rt = RtIdle
    /\ ev = EvIdle
    /\ out_dir = [n \in {} |-> <<>>]
    /\ watch = WatchIdle
    /\ day = DayIdle

DayNext == gen_events_for_day \/ gen_events_loop \/ gen_events_return \/ write_day_file

DaySpec == DayInit /\ [][DayNext]_vars

\* the 24h times of day 00:00 .. 23:59
ValidTimes == {Pad2(h) \o ":" \o Pad2(m) : h \in 0..23, m \in 0..59}

\* C14: every event gen_events_for_day returns has 0 <= start < end <= 1439, so
\* the startTime and endTime write_day_file writes for it are 24h HH:MM times
\* with an hour of at most 23, and the returned list is in strictly increasing
\* order of start.
C14_DayEventTimes ==
    day.stage \in {"returned", "written"} =>
        /\ \A i \in 1..Len(day.events) :
              /\ 0 <= day.events[i].start
              /\ day.events[i].start < day.events[i].end
              /\ day.events[i].end <= 1439
              /\ fmt_hhmm_daily(day.events[i].start) \in ValidTimes
              /\ fmt_hhmm_daily(day.events[i].end) \in ValidTimes
        /\ \A i \in 1..(Len(day.events) - 1) : day.events[i].start < day.events[i + 1].start

====
